---- MODULE Spec2Model ----
(***************************************************************************)
(* Model of the house-price dashboard: the batch collector, the change     *)
(* calculator, the geo join, the colour mapping and the drill-down of      *)
(* houseprice_visualization_streamlit.py, and the page flow of main.py.    *)
(*                                                                         *)
(* Conventions.                                                            *)
(*  - A month ("%Y%m" string) is its ordinal number 1, 2, ...              *)
(*  - A date is a number of half-months: the first day of month y is 2*y,  *)
(*    the middle of month y is 2*y + 1.                                    *)
(*  - An index value (매매지수) is a natural number.                       *)
(*  - A float is a record: the fraction num / den, or inf, or nan; a       *)
(*    percent rounded to two decimals has den = 100.                       *)
(*  - The statistics server answers a request for a region with a row of   *)
(*    that region (row["CLS_ID"] is the requested CLS_ID) or not at all.   *)
(*  - A DataFrame is the sequence of its rows; the columns 날짜, 매매지수, *)
(*    지역코드, 지역명, 증감률(%) are the fields date, value, code, name,  *)
(*    pct.  A missing cell (NaN / None) is the empty sequence, a present   *)
(*    cell a one-element sequence.                                         *)
(*  - A region name is a sequence of words, so that str.endswith and       *)
(*    str.strip can be computed.                                           *)
(***************************************************************************)
EXTENDS Integers, Sequences, FiniteSets, TLC

VARIABLES
    pc,                  \* position of the script / function being run
    start_yyyymm,        \* batch_fetch argument
    end_yyyymm,          \* batch_fetch argument
    fut,                 \* the futures of executor.map, in task order
    results,             \* batch_fetch's local list
    consumed,            \* the futures the for loop has taken from executor.map, in order
    actual,              \* calc_change's actual start and end dates (s, e)
    df_full,             \* the observation table
    start_date,          \* the user's start date
    end_date,            \* the user's end date
    result_df,           \* calc_change's outcome
    cls_id_to_name_map,  \* the lookup table, in file order
    geo_df,              \* the geometry table: SIG_KOR_NM of each feature
    merged_gdf,          \* merge_geo_data's result
    fillColor,           \* the fill colour of each rendered feature
    clicked,             \* index of the clicked row of merged_gdf (0: none)
    matched_code,        \* the drill-down's region code
    http_requests,       \* HTTP requests issued so far
    shown                \* what the page shows: errors, notices, artefacts

vars == <<pc, start_yyyymm, end_yyyymm, fut, results, consumed, actual, df_full,
          start_date, end_date, result_df, cls_id_to_name_map, geo_df,
          merged_gdf, fillColor, clicked, matched_code, http_requests, shown>>

fetchVars == <<start_yyyymm, end_yyyymm, fut, results, consumed>>
calcVars == <<start_date, end_date, actual, result_df>>
geoVars == <<cls_id_to_name_map, geo_df, merged_gdf, fillColor, clicked, matched_code>>

(***************************************************************************)
(* Bounds and program constants                                            *)
(***************************************************************************)
NumPeriods == 2          \* months 1..NumPeriods
MaxPool == 2             \* worker threads the model lets run at once
max_workers == 20        \* ThreadPoolExecutor(max_workers=20)
Values == {0, 3, 7}      \* index values a response can carry

Months == 1..NumPeriods

Min(a, b) == IF a <= b THEN a ELSE b
Abs(x) == IF x < 0 THEN -x ELSE x
Range(f) == {f[i] : i \in DOMAIN f}

None == <<>>
Some(x) == <<x>>

RECURSIVE SelectSeqBy(_, _, _)
\* df[df[field].isin(keep)]: the rows of q, in order, whose field is in keep
SelectSeqBy(q, field, keep) ==
    IF q = <<>> THEN <<>>
    ELSE (IF Head(q)[field] \in keep THEN <<Head(q)>> ELSE <<>>)
         \o SelectSeqBy(Tail(q), field, keep)

(***************************************************************************)
(* Reference data                                                          *)
(***************************************************************************)
\* load_csv: the region codes, in file order
cls_ids == <<"11", "26">>

\* the lookup table load_csv builds from the same file (a dict: code -> name)
DefaultNameMap ==
    << [code |-> "11", name |-> <<"Seoul", "Jung-gu">>],
       [code |-> "26", name |-> <<"Busan", "Jung-gu">>] >>

MapKeys(m) == {m[i].code : i \in DOMAIN m}
MapGet(m, c) == (CHOOSE i \in DOMAIN m : m[i].code = c)

\* pd.to_datetime(yyyymm + "01"): the first day of the month
to_datetime(yyyymm) == 2 * yyyymm

(***************************************************************************)
(* fetch_index                                                             *)
(***************************************************************************)
FailureKinds == {"timeout", "network", "status", "badjson", "nokeys", "norows"}
Responses == [kind : FailureKinds, val : {0}] \cup [kind : {"ok"}, val : Values]

\* the body of the try block: [exc |-> an exception was raised, ret |-> value]
fetch_index_try(cls_id, yyyymm, resp) ==
    CASE resp.kind \in {"timeout", "network"} -> [exc |-> TRUE, ret |-> None]
                                                 \* requests.get raises
      [] resp.kind = "status"  -> [exc |-> FALSE, ret |-> None]
      [] resp.kind = "badjson" -> [exc |-> TRUE, ret |-> None]
                                                 \* resp.json() raises
      [] resp.kind = "nokeys"  -> [exc |-> TRUE, ret |-> None]
                                                 \* row["CLS_ID"] raises KeyError
      [] resp.kind = "norows"  -> [exc |-> FALSE, ret |-> None]
      [] OTHER -> [exc |-> FALSE,
                   ret |-> Some([date |-> to_datetime(yyyymm),
                                 code |-> cls_id,
                                 value |-> resp.val])]

\* a fetch_index whose except clause catches only the HTTP client's errors
fetch_index_narrow(cls_id, yyyymm, resp) ==
    LET r == fetch_index_try(cls_id, yyyymm, resp) IN
    IF r.exc /\ resp.kind \in {"timeout", "network"}
    THEN [exc |-> FALSE, ret |-> None]
    ELSE r

\* fetch_index: the bare except turns every exception into None
fetch_index(cls_id, yyyymm, resp) ==
    LET r == fetch_index_try(cls_id, yyyymm, resp) IN
    IF r.exc THEN [exc |-> FALSE, ret |-> None] ELSE r

(***************************************************************************)
(* batch_fetch                                                             *)
(***************************************************************************)
\* pd.period_range(start, end, freq="M"): the months start..end, ascending
period_range(s, e) == [i \in 1..(IF e >= s THEN e - s + 1 ELSE 0) |-> s + i - 1]

\* tasks = [(cid, y) for y in periods for cid in cls_ids]
Tasks(s, e) ==
    LET periods == period_range(s, e)
        n == Len(cls_ids)
    IN [i \in 1..(Len(periods) * n) |->
          [cid |-> cls_ids[((i - 1) % n) + 1], y |-> periods[((i - 1) \div n) + 1]]]

PoolSize == Min(max_workers, MaxPool)
Running == {i \in DOMAIN fut : fut[i].st = "running"}
Pending == {i \in DOMAIN fut : fut[i].st = "pending"}

\* executor.map yields the results in the order of the tasks, whatever the order
\* in which the fetches complete
YieldableAsCompleted ==
    {i \in DOMAIN fut : fut[i].st = "done" /\ i \notin Range(consumed)}
Yieldable == IF Len(consumed) < Len(fut) THEN {Len(consumed) + 1} ELSE {}

\* the iterator's next() blocks until that future has resolved
ResultReady(i) == fut[i].st = "done"

\* leaving the with block: shutdown(wait=True) joins every worker
AllResolved == \A i \in DOMAIN fut : fut[i].st = "done"

\* df_full["CLS_NM"] = df_full["CLS_ID"].map(...); dropna(subset=["CLS_NM"])
WithNames(rows, m) ==
    LET named == SelectSeqBy(rows, "code", MapKeys(m)) IN
    [i \in DOMAIN named |->
        [date |-> named[i].date, code |-> named[i].code,
         value |-> named[i].value, name |-> m[MapGet(m, named[i].code)].name]]

FetchIdle ==
    /\ start_yyyymm = 0 /\ end_yyyymm = 0 /\ fut = <<>>
    /\ results = <<>> /\ consumed = <<>>

InitFetch ==
    /\ pc = "batch_fetch"
    /\ start_yyyymm \in Months
    /\ end_yyyymm \in Months
    /\ fut = <<>> /\ results = <<>> /\ consumed = <<>>
    /\ df_full = <<>>
    /\ actual = None
    /\ start_date = 0 /\ end_date = 0 /\ result_df = <<>>
    /\ cls_id_to_name_map = DefaultNameMap
    /\ geo_df = <<>> /\ merged_gdf = <<>> /\ fillColor = <<>>
    /\ clicked = 0 /\ matched_code = None
    /\ http_requests = 0 /\ shown = {}

\* executor.map submits every task at once
Dispatch ==
    /\ pc = "batch_fetch"
    /\ fut' = [i \in DOMAIN Tasks(start_yyyymm, end_yyyymm) |->
                  [st |-> "pending", failed |-> FALSE, exc |-> FALSE, rec |-> None]]
    /\ pc' = "iterating"
    /\ UNCHANGED <<start_yyyymm, end_yyyymm, results, consumed, df_full, calcVars,
                   geoVars, http_requests, shown>>

\* a free worker takes the oldest queued task and issues its HTTP request
WorkerStart ==
    /\ pc = "iterating"
    /\ Pending # {}
    /\ Cardinality(Running) < PoolSize
    /\ LET i == CHOOSE k \in Pending : \A j \in Pending : k <= j IN
       fut' = [fut EXCEPT ![i].st = "running"]
    /\ http_requests' = http_requests + 1
    /\ UNCHANGED <<pc, start_yyyymm, end_yyyymm, results, consumed, df_full, calcVars,
                   geoVars, shown>>

\* a running fetch resolves, in any order, with any response
WorkerFinish(i, resp) ==
    /\ pc = "iterating"
    /\ i \in Running
    /\ LET t == Tasks(start_yyyymm, end_yyyymm)[i]
           r == fetch_index(t.cid, t.y, resp)
       IN fut' = [fut EXCEPT ![i] = [st |-> "done", failed |-> resp.kind # "ok",
                                     exc |-> r.exc, rec |-> r.ret]]
    /\ UNCHANGED <<pc, start_yyyymm, end_yyyymm, results, consumed, df_full, calcVars,
                   geoVars, http_requests, shown>>

\* for rec in fetched_data: if rec: results.append(rec)
Consume(i) ==
    /\ pc = "iterating"
    /\ i \in Yieldable
    /\ ResultReady(i)
    /\ IF fut[i].exc
       THEN /\ pc' = "raised"
            /\ UNCHANGED <<results, consumed>>
       ELSE /\ results' = results \o fut[i].rec
            /\ consumed' = Append(consumed, i)
            /\ pc' = pc
    /\ UNCHANGED <<start_yyyymm, end_yyyymm, fut, df_full, calcVars,
                   geoVars, http_requests, shown>>

\* the with block ends (shutdown waits for the workers); the frame is built
BuildFrame ==
    /\ pc = "iterating"
    /\ Len(consumed) = Len(fut)
    /\ AllResolved
    /\ df_full' = WithNames(results, cls_id_to_name_map)
    /\ pc' = "returned"
    /\ UNCHANGED <<fetchVars, calcVars, geoVars,
                   http_requests, shown>>

NextFetch ==
    \/ Dispatch
    \/ WorkerStart
    \/ \E i \in DOMAIN fut : \E resp \in Responses : WorkerFinish(i, resp)
    \/ \E i \in DOMAIN fut : Consume(i)
    \/ BuildFrame

SpecFetch == InitFetch /\ [][NextFetch]_vars

\* the rows of the returned table that belong to task i's (region, month) pair
RowsOfTask(i) ==
    LET t == Tasks(start_yyyymm, end_yyyymm)[i] IN
    {k \in DOMAIN df_full :
        df_full[k].code = t.cid /\ df_full[k].date = to_datetime(t.y)}

\* C3: no exception leaves batch_fetch, and in the table it returns a pair whose
\* fetch failed (timeout, network error, non-200 status, malformed JSON, missing
\* keys, empty row list) has no row at all, while every pair whose fetch
\* succeeded has its one row, with the value fetched.
C3_FailedFetchDropped ==
    /\ pc # "raised"
    /\ pc = "returned" =>
          \A i \in DOMAIN fut :
             IF fut[i].failed
             THEN RowsOfTask(i) = {}
             ELSE /\ Cardinality(RowsOfTask(i)) = 1
                  /\ fut[i].rec # None
                  /\ \A k \in RowsOfTask(i) : df_full[k].value = fut[i].rec[1].value

\* batch_fetch has returned after one fetch failed and another succeeded
C3_Witness ==
    /\ pc = "returned"
    /\ \E i, j \in DOMAIN fut :
          /\ fut[i].failed /\ ~fut[j].failed
          /\ RowsOfTask(i) = {} /\ RowsOfTask(j) # {}

\* C9: never more fetches in flight than the pool has workers; the table is
\* built only once every dispatched fetch has resolved, and in it the rows of
\* each region are in non-decreasing date order, whatever the completion order.
C9_BarrierAndDateOrder ==
    /\ Cardinality(Running) <= PoolSize
    /\ pc = "returned" =>
          /\ \A i \in DOMAIN fut : fut[i].st = "done"
          /\ \A k, l \in DOMAIN df_full :
                (k < l /\ df_full[k].code = df_full[l].code)
                   => df_full[k].date <= df_full[l].date

\* a table with two months of one region has been returned
C9_Witness ==
    /\ pc = "returned"
    /\ \E k, l \in DOMAIN df_full :
          /\ k < l /\ df_full[k].code = df_full[l].code
          /\ df_full[k].date < df_full[l].date

(***************************************************************************)
(* calc_change (houseprice_visualization_streamlit.py)                     *)
(***************************************************************************)
\* a number: finite (num / den, den > 0), or the float inf or nan
Num(n, d) == [kind |-> "num", num |-> n, den |-> d]
Inf == [kind |-> "inf", num |-> 1, den |-> 0]
NaN == [kind |-> "nan", num |-> 0, den |-> 0]
NumEq(x, y) ==
    /\ x.kind = "num" /\ y.kind = "num"
    /\ x.num * y.den = y.num * x.den

\* round(n / d, 0) for d > 0: to the nearest integer, a tie to the even one
RoundHalfEven(n, d) ==
    LET q == n \div d
        r == n - q * d
    IN IF 2 * r < d THEN q
       ELSE IF 2 * r > d THEN q + 1
       ELSE IF q % 2 = 0 THEN q ELSE q + 1

\* round(x, 2) of the float x = n / d
Round2(n, d) == Num(RoundHalfEven(100 * n, d), 100)

\* (b - a) / a * 100 on numpy floats: a division by zero raises nothing and
\* yields inf (b > 0) or nan (b = 0); index values are never negative
PctFloat(a, b) ==
    IF a # 0 THEN Num((b - a) * 100, a)
    ELSE IF b - a > 0 THEN Inf ELSE NaN

\* round((b - a)/a*100, 2)
PctRounded(a, b) ==
    LET x == PctFloat(a, b) IN
    IF x.kind = "num" THEN Round2(x.num, x.den) ELSE x

RECURSIVE MinIndex(_, _, _, _)
\* Python's min over the keys, scanning from position i with the best position
\* so far: a later element replaces the best only when its key is strictly
\* smaller (orEqual: also when it is equal)
MinIndex(keys, i, best, orEqual) ==
    IF i > Len(keys) THEN best
    ELSE MinIndex(keys, i + 1,
                  IF keys[i] < keys[best] \/ (orEqual /\ keys[i] = keys[best])
                  THEN i ELSE best,
                  orEqual)

Dates(df) == [i \in DOMAIN df |-> df[i].date]
\* key=lambda x: abs(x - pd.to_datetime(target))
DateKeys(df, target) == [i \in DOMAIN df |-> Abs(df[i].date - target)]

\* a nearest-date choice in which the last of several equally near dates wins
nearest_date_last(df, target) ==
    Dates(df)[MinIndex(DateKeys(df, target), 2, 1, TRUE)]

\* min(df["날짜"], key=lambda x: abs(x - pd.to_datetime(target)))
nearest_date(df, target) ==
    Dates(df)[MinIndex(DateKeys(df, target), 2, 1, FALSE)]

RowsOn(df, d) == SelectSeqBy(df, "date", {d})
RowsOf(df, c) == SelectSeqBy(df, "code", {c})

RECURSIVE Unique(_, _)
\* Series.unique(): the distinct codes in order of first appearance
Unique(df, seen) ==
    IF df = <<>> THEN <<>>
    ELSE IF Head(df).code \in seen THEN Unique(Tail(df), seen)
    ELSE <<Head(df).code>> \o Unique(Tail(df), seen \cup {Head(df).code})

\* calc_change: [s, e, exc |-> an IndexError left the function, rows |-> out]
calc_change(df, sd, ed) ==
    LET s == nearest_date(df, sd)
        e == nearest_date(df, ed)
        df_s == RowsOn(df, s)
        df_e == RowsOn(df, e)
        codes == Unique(df_s, {})
        \* df_e[df_e["CLS_ID"] == cls]["매매지수"].iloc[0] on no row: IndexError
        raises == \E i \in DOMAIN codes : RowsOf(df_e, codes[i]) = <<>>
        row(c) == LET a == RowsOf(df_s, c)[1].value
                      b == RowsOf(df_e, c)[1].value
                  IN [code |-> c, name |-> RowsOf(df_s, c)[1].name,
                      a |-> a, b |-> b, pct |-> PctRounded(a, b)]
    IN [s |-> s, e |-> e, exc |-> raises,
        rows |-> IF raises THEN <<>> ELSE [i \in DOMAIN codes |-> row(codes[i])]]

(***************************************************************************)
(* The change calculator on every table batch_fetch can return             *)
(***************************************************************************)
AllTasks == Tasks(1, NumPeriods)
Absent == 0 - 1     \* marks a fetch that left no record

RECURSIVE ObsOf(_, _)
\* the records of the fetches that succeeded, in task order
ObsOf(g, i) ==
    IF i > Len(AllTasks) THEN <<>>
    ELSE (IF g[i] = Absent THEN <<>>
          ELSE <<[date |-> to_datetime(AllTasks[i].y), code |-> AllTasks[i].cid,
                  value |-> g[i]]>>)
         \o ObsOf(g, i + 1)

Frames ==
    {WithNames(ObsOf(g, 1), DefaultNameMap) :
        g \in [DOMAIN AllTasks -> Values \cup {Absent}]}

Reverse(q) == [i \in DOMAIN q |-> q[Len(q) + 1 - i]]

\* the same tables, oldest month first or newest month first
FramesAnyOrder == Frames \cup {Reverse(f) : f \in Frames}

\* the dates a user can ask for: from before the first month to after the last
Days == 1..(2 * NumPeriods + 2)

InitCalc ==
    /\ pc = "calc_change"
    /\ FetchIdle
    /\ df_full \in Frames \ {<<>>}     \* calc_change runs only on a non-empty table
    /\ start_date \in Days
    /\ end_date \in Days
    /\ actual = None
    /\ result_df = <<>>
    /\ cls_id_to_name_map = DefaultNameMap
    /\ geo_df = <<>> /\ merged_gdf = <<>> /\ fillColor = <<>>
    /\ clicked = 0 /\ matched_code = None
    /\ http_requests = 0 /\ shown = {}

CalcChange ==
    /\ pc = "calc_change"
    /\ LET r == calc_change(df_full, start_date, end_date) IN
       /\ actual' = Some([s |-> r.s, e |-> r.e])
       /\ result_df' = r.rows
       /\ pc' = IF r.exc THEN "IndexError" ELSE "calc_done"
    /\ UNCHANGED <<fetchVars, df_full, start_date, end_date, geoVars,
                   http_requests, shown>>

NextCalc == CalcChange

SpecCalc == InitCalc /\ [][NextCalc]_vars

\* calc_change as a function of its arguments: on tables in either date order
InitCalcAnyOrder ==
    /\ pc = "calc_change"
    /\ FetchIdle
    /\ df_full \in FramesAnyOrder \ {<<>>}
    /\ start_date \in Days
    /\ end_date \in Days
    /\ actual = None
    /\ result_df = <<>>
    /\ cls_id_to_name_map = DefaultNameMap
    /\ geo_df = <<>> /\ merged_gdf = <<>> /\ fillColor = <<>>
    /\ clicked = 0 /\ matched_code = None
    /\ http_requests = 0 /\ shown = {}

SpecCalcAnyOrder == InitCalcAnyOrder /\ [][NextCalc]_vars


Called == pc \in {"calc_done", "IndexError"}

\* position i holds the first date of df_full that is nearest to target
FirstNearest(i, target) ==
    /\ \A j \in DOMAIN df_full :
          Abs(df_full[j].date - target) >= Abs(df_full[i].date - target)
    /\ \A j \in DOMAIN df_full :
          j < i => Abs(df_full[j].date - target) > Abs(df_full[i].date - target)

\* C1: the actual start date and the actual end date are each an observation
\* date at minimal absolute distance from the requested date, and of several
\* equally distant dates the one first in the table.
C1_NearestDates ==
    Called =>
       /\ \E i \in DOMAIN df_full :
             df_full[i].date = actual[1].s /\ FirstNearest(i, start_date)
       /\ \E i \in DOMAIN df_full :
             df_full[i].date = actual[1].e /\ FirstNearest(i, end_date)

\* calc_change has chosen between two dates equally far from the requested
\* start date, and has taken the one that comes first in the table although it
\* is the later date
C1_Witness ==
    /\ Called
    /\ \E i, j \in DOMAIN df_full :
          /\ df_full[i].date > df_full[j].date
          /\ FirstNearest(i, start_date)
          /\ Abs(df_full[j].date - start_date) = Abs(df_full[i].date - start_date)
          /\ actual[1].s = df_full[i].date

\* C2: every reported change percent is round((b - a)/a*100, 2) when the start
\* value a is not 0, and 0 when a is 0.
C2_ChangePercent ==
    pc = "calc_done" =>
       \A k \in DOMAIN result_df :
          LET r == result_df[k] IN
          IF r.a # 0
          THEN r.pct = Round2((r.b - r.a) * 100, r.a)
          ELSE r.pct = Num(0, 100)

HasObs(c, d) == \E k \in DOMAIN df_full : df_full[k].code = c /\ df_full[k].date = d

\* C5: calc_change ends without an error, and its result has exactly one row
\* for every region observed on both selected dates and no row for a region
\* observed on only one of them.
C5_OneSidedRegionExcluded ==
    Called =>
       /\ pc # "IndexError"
       /\ \A c \in Range(cls_ids) :
             Cardinality({k \in DOMAIN result_df : result_df[k].code = c})
               = IF HasObs(c, actual[1].s) /\ HasObs(c, actual[1].e) THEN 1 ELSE 0

(***************************************************************************)
(* merge_geo_data, plot_colormap_with_geojson and the click drill-down     *)
(***************************************************************************)
MaxFeatures == 2         \* features of the geometry table

\* region names of the lookup table and feature names of the geometry file
NamePool == {<<"Jung-gu">>, <<"Seoul", "Jung-gu">>, <<"Gangnam-gu">>}
GeoNames == {<<"Jung-gu">>, <<"Gangnam-gu">>, <<"Jung-gu", " ">>}

\* geo_df.merge(result_df, left_on="SIG_KOR_NM", right_on="지역명", how="left")
\* without the rows a second, third, ... match adds
merge_first_match(geo, res) ==
    [i \in DOMAIN geo |->
        LET hits == SelectSeqBy(res, "name", {geo[i]}) IN
        [feature |-> i, SIG_KOR_NM |-> geo[i],
         res |-> IF hits = <<>> THEN None ELSE Some(hits[1])]]

RECURSIVE merge_from(_, _, _)
\* a left merge: the features in their order, each once per result row of the
\* same name (in result order), or once with empty result columns if there is none
merge_from(geo, res, i) ==
    IF i > Len(geo) THEN <<>>
    ELSE LET hits == SelectSeqBy(res, "name", {geo[i]}) IN
         (IF hits = <<>>
          THEN <<[feature |-> i, SIG_KOR_NM |-> geo[i], res |-> None]>>
          ELSE [k \in DOMAIN hits |->
                  [feature |-> i, SIG_KOR_NM |-> geo[i], res |-> Some(hits[k])]])
         \o merge_from(geo, res, i + 1)

merge_geo_data(geo, res) == merge_from(geo, res, 1)

\* the defined values of the column 증감률(%) (min and max skip the empty cells)
Defined(merged) == {merged[k].res[1].pct : k \in {j \in DOMAIN merged : merged[j].res # None}}
NumLeq(x, y) == x.num * y.den <= y.num * x.den
min_val(merged) == CHOOSE x \in Defined(merged) : \A y \in Defined(merged) : NumLeq(x, y)
max_val(merged) == CHOOSE x \in Defined(merged) : \A y \in Defined(merged) : NumLeq(y, x)

Sentinel == [scale |-> "#8c8c8c", num |-> 0, den |-> 1]

\* create_colormap(vmin, vmax)(val): the colour of RdYlGn at Normalize(val),
\* which is (val - vmin) / (vmax - vmin), and 0 for every val when vmin = vmax;
\* the position on the scale is kept as the fraction num / den (val, vmin and
\* vmax are rounded percents, all over the denominator 100)
get_color(vmin, vmax, val) ==
    IF NumEq(vmin, vmax)
    THEN [scale |-> "RdYlGn", num |-> 0, den |-> 1]
    ELSE [scale |-> "RdYlGn", num |-> val.num - vmin.num, den |-> vmax.num - vmin.num]

\* style_function: fillColor of each row of the merged table
plot_colormap(merged) ==
    [k \in DOMAIN merged |->
        IF merged[k].res # None
        THEN get_color(min_val(merged), max_val(merged), merged[k].res[1].pct)
        ELSE Sentinel]

RECURSIVE strip(_)
\* str.strip(): without leading and trailing blanks
strip(n) ==
    IF n = <<>> THEN n
    ELSE IF Head(n) = " " THEN strip(Tail(n))
    ELSE IF n[Len(n)] = " " THEN strip(SubSeq(n, 1, Len(n) - 1))
    ELSE n

\* str.endswith
endswith(n, suffix) ==
    /\ Len(suffix) <= Len(n)
    /\ SubSeq(n, Len(n) - Len(suffix) + 1, Len(n)) = suffix

\* for code, name in cls_id_to_name_map.items():
\*     if name.endswith(clicked_name.strip()): matched_code = code; break
match_code(m, clicked_name) ==
    LET hits == {i \in DOMAIN m : endswith(m[i].name, strip(clicked_name))} IN
    IF hits = {} THEN None
    ELSE Some(m[CHOOSE i \in hits : \A j \in hits : i <= j].code)

\* the lookup tables: each code of the file with a name
NameMaps ==
    {[i \in DOMAIN cls_ids |-> [code |-> cls_ids[i], name |-> f[i]]] :
        f \in [DOMAIN cls_ids -> NamePool]}

\* the geometry tables
GeoTables == UNION {[1..n -> GeoNames] : n \in 1..MaxFeatures}

\* per region: no row, or the row calc_change makes of a start value a # 0 and
\* an end value b (the colours are modelled for finite percents)
RowChoices == {<<0, 0>>} \cup ((Values \ {0}) \X Values)

RECURSIVE ResultRows(_, _, _)
ResultRows(m, ch, i) ==
    IF i > Len(cls_ids) THEN <<>>
    ELSE (IF ch[i] = <<0, 0>> THEN <<>>
          ELSE <<[code |-> cls_ids[i], name |-> m[MapGet(m, cls_ids[i])].name,
                  a |-> ch[i][1], b |-> ch[i][2],
                  pct |-> PctRounded(ch[i][1], ch[i][2])]>>)
         \o ResultRows(m, ch, i + 1)

InitGeo ==
    /\ pc = "merge"
    /\ FetchIdle
    /\ df_full = <<>> /\ start_date = 0 /\ end_date = 0 /\ actual = None
    /\ cls_id_to_name_map \in NameMaps
    /\ geo_df \in GeoTables
    /\ \E ch \in [DOMAIN cls_ids -> RowChoices] :
          /\ result_df = ResultRows(cls_id_to_name_map, ch, 1)
          /\ result_df # <<>>
    /\ merged_gdf = <<>> /\ fillColor = <<>>
    /\ clicked = 0 /\ matched_code = None
    /\ http_requests = 0 /\ shown = {}

MergeGeoData ==
    /\ pc = "merge"
    /\ merged_gdf' = merge_geo_data(geo_df, result_df)
    /\ pc' = "plot"
    /\ UNCHANGED <<fetchVars, df_full, calcVars, cls_id_to_name_map, geo_df,
                   fillColor, clicked, matched_code, http_requests, shown>>

PlotColormap ==
    /\ pc = "plot"
    /\ fillColor' = plot_colormap(merged_gdf)
    /\ pc' = "map"
    /\ UNCHANGED <<fetchVars, df_full, calcVars, cls_id_to_name_map, geo_df,
                   merged_gdf, clicked, matched_code, http_requests, shown>>

\* the user clicks the drawing of row k; the script looks the region up
Click(k) ==
    /\ pc = "map"
    /\ k \in DOMAIN merged_gdf
    /\ clicked' = k
    /\ matched_code' = match_code(cls_id_to_name_map, merged_gdf[k].SIG_KOR_NM)
    /\ pc' = "drilldown"
    /\ UNCHANGED <<fetchVars, df_full, calcVars, cls_id_to_name_map, geo_df,
                   merged_gdf, fillColor, http_requests, shown>>

NextGeo == MergeGeoData \/ PlotColormap \/ \E k \in DOMAIN merged_gdf : Click(k)

SpecGeo == InitGeo /\ [][NextGeo]_vars

Merged == pc \in {"plot", "map", "drilldown"}
Plotted == pc \in {"map", "drilldown"}

\* C4: in the merged table every feature of the geometry table appears exactly
\* once, with at most one change result, and that is the first result row of
\* the feature's name.
C4_OneRowPerFeature ==
    Merged => merged_gdf = merge_first_match(geo_df, result_df)

\* C6: when all defined change percents are equal, every feature with a
\* defined value gets one and the same colour, and that colour is a neutral
\* one, not a point of the red-yellow-green scale.
C6_DegenerateRangeNeutral ==
    (Plotted /\ Defined(merged_gdf) # {}
       /\ NumEq(min_val(merged_gdf), max_val(merged_gdf)))
    => \A k \in DOMAIN merged_gdf :
          merged_gdf[k].res # None =>
             /\ fillColor[k].scale # "RdYlGn"
             /\ \A l \in DOMAIN merged_gdf :
                   merged_gdf[l].res # None => fillColor[l] = fillColor[k]

\* C10: after a click on a feature that carries a change result, the region
\* code of the drill-down is the region code of that result.
C10_DrilldownSameRegion ==
    (pc = "drilldown" /\ merged_gdf[clicked].res # None)
    => matched_code = Some(merged_gdf[clicked].res[1].code)

(***************************************************************************)
(* main.py: the page script, its calc_change and create_choropleth_map     *)
(***************************************************************************)
\* SIG.geojson: the key (properties.SIG_KOR_NM) of each feature, which
\* create_choropleth_map looks up among the CLS_ID values of the result
main_geojson == <<"11", "26", "41">>

\* the table load_and_process_data returns when the request succeeds: the rows
\* whose 매매지수 is a number, oldest first or newest first
MainFrames == FramesAnyOrder

\* calc_change of main.py: the rows of the result, <<>> for the empty frame
calc_change_main(df, sd, ed) ==
    LET df_e == SelectSeqBy(df, "date", sd..ed)
        df_s == SelectSeqBy(df, "date", {sd})
        codes == Unique(df, {})
        row(c) ==
            LET fe == RowsOf(df_e, c)
                fs == RowsOf(df_s, c)
                b == IF fe # <<>> THEN fe[1].value ELSE 0
                a == IF fs # <<>> THEN fs[1].value ELSE 0
            IN [code |-> c, pct |-> IF a # 0 THEN PctFloat(a, b) ELSE Num(0, 1)]
    IN IF df_e = <<>> \/ df_s = <<>> THEN <<>>
       ELSE [i \in DOMAIN codes |-> row(codes[i])]

RateSet(df) == {df[k].pct : k \in DOMAIN df}
White == [scale |-> "#FFFFFF", num |-> 0, den |-> 1]

\* create_choropleth_map: [map |-> a map is returned, fill |-> the fill colour of
\* each feature of the GeoJson layer, <<>> when no layer is added]
create_choropleth_map(df, geojson) ==
    IF df = <<>> \/ geojson = None THEN [map |-> FALSE, fill |-> <<>>]
    ELSE LET lo == CHOOSE x \in RateSet(df) : \A y \in RateSet(df) : NumLeq(x, y)
             hi == CHOOSE x \in RateSet(df) : \A y \in RateSet(df) : NumLeq(y, x)
         IN IF NumEq(lo, hi)
            THEN [map |-> TRUE, fill |-> <<>>]    \* color_scale is never used
            ELSE [map |-> TRUE,
                  fill |-> [i \in DOMAIN geojson[1] |->
                     LET hits == RowsOf(df, geojson[1][i]) IN
                     IF hits # <<>>
                     THEN [scale |-> "choropleth.colormap",
                           num |-> hits[1].pct.num, den |-> hits[1].pct.den]
                     ELSE White]]

DateSpan(df) == {df[k].date : k \in DOMAIN df}
min_date(df) == CHOOSE d \in DateSpan(df) : \A x \in DateSpan(df) : d <= x
max_date(df) == CHOOSE d \in DateSpan(df) : \A x \in DateSpan(df) : d >= x

InitMain ==
    /\ pc = "main_load"
    /\ FetchIdle
    /\ df_full = <<>> /\ start_date = 0 /\ end_date = 0 /\ actual = None
    /\ result_df = <<>>
    /\ cls_id_to_name_map = <<>>
    /\ geo_df \in {None, Some(main_geojson)}     \* load_geojson: None if unreadable
    /\ merged_gdf = <<>> /\ fillColor = <<>>
    /\ clicked = 0 /\ matched_code = None
    /\ http_requests = 0 /\ shown = {}

mainFixed == <<fetchVars, actual, cls_id_to_name_map, geo_df, merged_gdf,
               clicked, matched_code>>

\* first run: load_and_process_data issues its GET; the date inputs then hold
\* their defaults, the first and the last date of the data
LoadAndProcess(ok, frame) ==
    /\ pc = "main_load"
    /\ http_requests = 0
    /\ http_requests' = 1
    /\ IF ok /\ frame # <<>>
       THEN /\ df_full' = frame
            /\ start_date' = min_date(frame)
            /\ end_date' = max_date(frame)
            /\ shown' = {}
            /\ pc' = "main_dates"
       ELSE /\ df_full' = <<>>
            /\ shown' = (IF ok THEN {} ELSE {"api_error"}) \cup {"load_failed"}
            /\ pc' = "main_done"
            /\ UNCHANGED <<start_date, end_date>>
    /\ UNCHANGED <<mainFixed, result_df, fillColor>>

\* a rerun: st.cache_data returns the table without a request
LoadCached ==
    /\ pc = "main_load"
    /\ http_requests > 0
    /\ pc' = "main_dates"
    /\ UNCHANGED <<mainFixed, df_full, start_date, end_date, result_df, fillColor,
                   http_requests, shown>>

\* if start_date_input > end_date_input: st.error(...)
RejectDates ==
    /\ pc = "main_dates"
    /\ start_date > end_date
    /\ shown' = {"date_error"}
    /\ pc' = "rejected"
    /\ UNCHANGED <<mainFixed, df_full, start_date, end_date, result_df, fillColor,
                   http_requests>>

\* else: calc_change, create_choropleth_map and the page's outcome
Render ==
    /\ pc = "main_dates"
    /\ ~(start_date > end_date)
    /\ LET res == calc_change_main(df_full, start_date, end_date)
           m == create_choropleth_map(res, geo_df)
       IN /\ result_df' = res
          /\ fillColor' = m.fill
          /\ shown' = IF res = <<>> THEN {"no_result"}
                      ELSE IF m.map THEN {"map"} ELSE {"no_map"}
          /\ pc' = IF res # <<>> /\ m.map THEN "mapped" ELSE "main_done"
    /\ UNCHANGED <<mainFixed, df_full, start_date, end_date, http_requests>>

\* the user picks dates between the first and the last date of the data; the
\* script runs again from the top
EditDates(sd, ed) ==
    /\ pc \in {"rejected", "mapped", "main_done"}
    /\ df_full # <<>>
    /\ sd \in min_date(df_full)..max_date(df_full)
    /\ ed \in min_date(df_full)..max_date(df_full)
    /\ <<sd, ed>> # <<start_date, end_date>>
    /\ start_date' = sd
    /\ end_date' = ed
    /\ result_df' = <<>> /\ fillColor' = <<>> /\ shown' = {}
    /\ pc' = "main_load"
    /\ UNCHANGED <<mainFixed, df_full, http_requests>>

NextMain ==
    \/ \E ok \in BOOLEAN : \E frame \in MainFrames : LoadAndProcess(ok, frame)
    \/ LoadCached
    \/ RejectDates
    \/ Render
    \/ \E sd, ed \in Days : EditDates(sd, ed)

SpecMain == InitMain /\ [][NextMain]_vars

\* C7: a feature without a change result is drawn in the neutral colour and
\* not through the colour scale, and every value the colours are computed from
\* belongs to a region observed on the start date and within the period: no
\* region without data enters as a change of 0.
C7_NoDataNeverZero ==
    pc = "mapped" =>
       /\ \A i \in DOMAIN fillColor :
             RowsOf(result_df, main_geojson[i]) = <<>> => fillColor[i] = White
       /\ \A k \in DOMAIN result_df :
             /\ HasObs(result_df[k].code, start_date)
             /\ \E d \in start_date..end_date : HasObs(result_df[k].code, d)

\* C8: a start date after the end date is rejected before any HTTP request to
\* the statistics API has been issued.
C8_RejectedBeforeFetch ==
    pc = "rejected" => ("date_error" \in shown /\ http_requests = 0)

====
